---- MODULE Spec2Model ----
(***************************************************************************)
(* Model of dca_bot.py: configuration validation, the start-up connection  *)
(* test, the daily job registered with the `schedule` package, the polling *)
(* loop of main() and the three client calls of execute_dca().             *)
(*                                                                         *)
(* Time is the wall clock in whole seconds since midnight of day 0.        *)
(* Strings that the code parses (DCA_TIME) are sequences of one-character  *)
(* strings.  Python numbers are records: [t |-> "num", v |-> n], or NaN;   *)
(* JSON fields that may be absent are [t |-> "missing"].                   *)
(***************************************************************************)
EXTENDS Integers, Sequences, FiniteSets, TLC

VARIABLES
    API_KEY,        \* os.getenv("BITKUB_API_KEY"), "" when unset
    API_SECRET,     \* os.getenv("BITKUB_API_SECRET"), "" when unset
    DCA_AMOUNT,     \* float(os.getenv("DCA_AMOUNT_THB", 100))
    DCA_TIME,       \* os.getenv("DCA_TIME", "09:00"), a sequence of characters
    SYMBOL,         \* os.getenv("SYMBOL", "btc_thb").lower()
    pc,             \* position of the process
    now,            \* wall clock, seconds
    errors,         \* result of validate_config() in main
    startErr,       \* "error" field of the start-up balance response
    registered,     \* the daily job is in the scheduler
    regTime,        \* clock when the job was registered
    next_run,       \* the job's next_run
    ran,            \* history: the job runs, <<[due, at]>>
    calls,          \* history: client calls of the current execute_dca
    req,            \* the request last sent in the current call frame
    wallet,         \* execute_dca's local `wallet`
    result,         \* execute_dca's local `result`
    logged,         \* history: log lines of the current execute_dca
    exc             \* where an uncaught exception was raised

vars == <<API_KEY, API_SECRET, DCA_AMOUNT, DCA_TIME, SYMBOL, pc, now, errors,
          startErr, registered, regTime, next_run, ran, calls, req, wallet,
          result, logged, exc>>

cfgVars == <<API_KEY, API_SECRET, DCA_AMOUNT, DCA_TIME, SYMBOL>>

-----------------------------------------------------------------------------
(* Bounds of the model *)

\* clock at which main() is started: 23:58:50 of day 0
StartSecs == 86330
\* a client call takes 0 or MaxCallSecs seconds
MaxCallSecs == 25
\* the polling loop is followed up to this clock value
MaxNow == 172850

Durations == {0, MaxCallSecs}

-----------------------------------------------------------------------------
(* Program constants *)

BASE_URL == "https://api.bitkub.com"
SleepSecs == 60
DaySecs == 86400
MinAmount == 10
MaxHour == 23
MaxMinute == 59

-----------------------------------------------------------------------------
(* Python values *)

Num(n) == [t |-> "num", v |-> n]
\* float("nan"): a float that no comparison holds of
NaN == [t |-> "nan", v |-> 0]
Missing == [t |-> "missing"]
Unhashable == [t |-> "unhashable"]
\* no value read yet
NoField == [t |-> "none"]

\* a < b on Python floats: False whenever either side is NaN
PyLt(a, b) == a.t = "num" /\ b.t = "num" /\ a.v < b.v
\* a == 0
PyIsZero(a) == a.t = "num" /\ a.v = 0
\* d.get(key, default) for a field that may be missing
Get(field, default) == IF field.t = "missing" THEN default ELSE field

-----------------------------------------------------------------------------
(* str.split(':') and int() *)

DigitChars == <<"0", "1", "2", "3", "4", "5", "6", "7", "8", "9">>
IsDigit(c) == \E i \in 1..10 : DigitChars[i] = c
DigitVal(c) == (CHOOSE i \in 1..10 : DigitChars[i] = c) - 1

RECURSIVE Split(_)
Split(s) ==
    IF \A i \in 1..Len(s) : s[i] # ":"
    THEN <<s>>
    ELSE LET k == CHOOSE i \in 1..Len(s) :
                      s[i] = ":" /\ \A j \in 1..(i - 1) : s[j] # ":"
         IN  <<SubSeq(s, 1, k - 1)>> \o Split(SubSeq(s, k + 1, Len(s)))

RECURSIVE Strip(_)
Strip(s) ==
    IF s # <<>> /\ s[1] = " " THEN Strip(Tail(s))
    ELSE IF s # <<>> /\ s[Len(s)] = " " THEN Strip(SubSeq(s, 1, Len(s) - 1))
    ELSE s

RECURSIVE DigitsValue(_)
DigitsValue(s) ==
    IF s = <<>> THEN 0
    ELSE 10 * DigitsValue(SubSeq(s, 1, Len(s) - 1)) + DigitVal(s[Len(s)])

\* int(s): surrounding blanks and one sign are accepted; anything else
\* than decimal digits raises ValueError
PyInt(s) ==
    LET b == Strip(s)
        signed == b # <<>> /\ b[1] \in {"+", "-"}
        d == IF signed THEN Tail(b) ELSE b
    IN  IF d # <<>> /\ \A i \in 1..Len(d) : IsDigit(d[i])
        THEN [ok |-> TRUE,
              v |-> IF signed /\ b[1] = "-" THEN 0 - DigitsValue(d) ELSE DigitsValue(d)]
        ELSE [ok |-> FALSE, v |-> 0]

-----------------------------------------------------------------------------
(* validate_config *)

KeyError == "BITKUB_API_KEY is not set"
SecretError == "BITKUB_API_SECRET is not set"
AmountError == "DCA_AMOUNT_THB must be at least 10 THB"
TimeError == "DCA_TIME must be in HH:MM format (e.g., 09:00)"

\* the try block of validate_config: TRUE when ValueError or IndexError
\* is raised
TimeCheckRaises(s) ==
    LET time_parts == Split(s)
    IN  IF Len(time_parts) < 2 THEN TRUE                     \* IndexError
        ELSE LET hour == PyInt(time_parts[1])
                 minute == PyInt(time_parts[2])
             IN  \/ ~hour.ok
                 \/ ~minute.ok
                 \/ ~(0 <= hour.v /\ hour.v <= MaxHour
                      /\ 0 <= minute.v /\ minute.v <= MaxMinute)

validate_config ==
    (IF API_KEY = "" \/ API_KEY = "your_api_key_here" THEN <<KeyError>> ELSE <<>>)
    \o (IF API_SECRET = "" \/ API_SECRET = "your_api_secret_here"
        THEN <<SecretError>> ELSE <<>>)
    \o (IF PyLt(DCA_AMOUNT, Num(MinAmount)) THEN <<AmountError>> ELSE <<>>)
    \o (IF TimeCheckRaises(DCA_TIME) THEN <<TimeError>> ELSE <<>>)

-----------------------------------------------------------------------------
(* The `schedule` package, as main() uses it:                              *)
(*   schedule.every().day.at(DCA_TIME).do(execute_dca)                     *)
(*   schedule.run_pending()                                                *)

\* Job.at(time_str) of a daily job raises ScheduleValueError unless
\* time_str matches [0-2]\d:[0-5]\d(:[0-5]\d)? and the hour is <= 23
AtFormatOk(s) ==
    LET hm == /\ Len(s) >= 5
              /\ s[1] \in {"0", "1", "2"} /\ IsDigit(s[2])
              /\ s[3] = ":"
              /\ s[4] \in {"0", "1", "2", "3", "4", "5"} /\ IsDigit(s[5])
        sec == /\ Len(s) = 8
               /\ s[6] = ":"
               /\ s[7] \in {"0", "1", "2", "3", "4", "5"} /\ IsDigit(s[8])
    IN  /\ hm
        /\ Len(s) = 5 \/ sec
        /\ DigitsValue(SubSeq(s, 1, 2)) <= MaxHour

\* Job.at_time, as seconds after midnight
AtSecs(s) ==
    3600 * DigitsValue(SubSeq(s, 1, 2)) + 60 * DigitsValue(SubSeq(s, 4, 5))
    + (IF Len(s) = 8 THEN DigitsValue(SubSeq(s, 7, 8)) ELSE 0)

\* the instant of DCA_TIME on day d
At(d) == d * DaySecs + AtSecs(DCA_TIME)

\* every().day without .at(...): the next run is one period from now
NextRunNoAt(t) == t + DaySecs

\* Job._schedule_next_run at clock t for every().day.at(DCA_TIME):
\* now + 1 day with the time of day replaced by at_time, and one day
\* earlier when at_time is still ahead today
NextRunAfter(t) ==
    LET plus == t + DaySecs
        replaced == plus - (plus % DaySecs) + AtSecs(DCA_TIME)
    IN  IF AtSecs(DCA_TIME) > t % DaySecs THEN replaced - DaySecs ELSE replaced

\* Job.should_run, evaluated by run_pending
ShouldRun == registered /\ now >= next_run

-----------------------------------------------------------------------------
(* Signer and API client *)

\* int(time.time() * 1000)
Timestamp(t) == t * 1000

\* HMAC-SHA256 under API_SECRET of the concatenation of the four parts,
\* kept as the key and the parts
get_signature(timestamp, method, path, payload) ==
    [key |-> API_SECRET, message |-> <<timestamp, method, path, payload>>]

get_headers(timestamp, signature) ==
    [apikey |-> API_KEY, timestamp |-> timestamp, sign |-> signature]

NoReq == [kind |-> "none"]
NoResp == [kind |-> "none"]

WalletPath == "/api/v3/market/wallet"
TickerPath == "/api/v3/market/ticker"
PlaceBidPath == "/api/v3/market/place-bid"

\* requests serialises json={} to this body
EmptyJsonBody == [text |-> "{}"]

\* a wallet payload that is the default argument of get_signature
WalletPayloadDefault == [text |-> ""]

\* payload of get_wallet_balance
WalletPayload == [text |-> "{}"]

\* the request get_wallet_balance sends at clock t
WalletRequest(t) ==
    LET timestamp == Timestamp(t)
        method == "POST"
        path == WalletPath
        signature == get_signature(timestamp, method, path, WalletPayload)
    IN  [kind |-> "balance", method |-> "POST", url |-> <<BASE_URL, path>>,
         headers |-> get_headers(timestamp, signature),
         body |-> EmptyJsonBody, at |-> t]

\* the request get_ticker sends at clock t
TickerRequest(t) ==
    [kind |-> "ticker", method |-> "GET", url |-> <<BASE_URL, TickerPath>>, at |-> t]

\* json.dumps(payload_dict, separators=(',', ':'))
JsonDumps(payload_dict) ==
    [text |-> "dict", sym |-> payload_dict.sym, amt |-> payload_dict.amt,
     rat |-> payload_dict.rat, typ |-> payload_dict.typ]

\* the request place_market_buy_order(amount_thb) sends at clock t
OrderRequest(t, amount_thb) ==
    LET timestamp == Timestamp(t)
        method == "POST"
        path == PlaceBidPath
        payload_dict == [sym |-> SYMBOL, amt |-> amount_thb, rat |-> 0, typ |-> "market"]
        payload == JsonDumps(payload_dict)
        signature == get_signature(timestamp, method, path, payload)
    IN  [kind |-> "order", method |-> "POST", url |-> <<BASE_URL, path>>,
         headers |-> get_headers(timestamp, signature),
         body |-> payload, at |-> t]

\* get_ticker's result for the decoded response `data`
get_ticker(data) ==
    IF data.kind = "list" /\ data.btc THEN [has |-> TRUE, last |-> data.last]
    ELSE IF data.kind = "dict" THEN [has |-> data.btc, last |-> data.last]
    ELSE [has |-> FALSE, last |-> "missing"]

-----------------------------------------------------------------------------
(* What the exchange may answer *)

ErrorFields == {Missing, Num(0), Num(3), Unhashable}
BalanceFields == {Missing, Num(9), Num(10), Num(25)}

\* response.json() of the wallet call: raises, or is not a JSON object,
\* or is an object with optional "error" and "result"."THB"
WalletResponses ==
    {[kind |-> "raise"], [kind |-> "nondict"]}
    \cup {[kind |-> "dict", error |-> e, THB |-> b] : e \in ErrorFields, b \in BalanceFields}

\* decoded ticker data: a list (with or without an item whose symbol
\* contains "BTC"), an object (with or without key "THB_BTC"), another
\* JSON value, or a raise; "last" is numeric, absent or not a number
TickerData ==
    {[kind |-> "raise"], [kind |-> "other"]}
    \cup {[kind |-> k, btc |-> b, last |-> l] :
            k \in {"list", "dict"}, b \in BOOLEAN, l \in {"num", "missing", "bad"}}

\* response.json() of the place-bid call
OrderResponses ==
    {[kind |-> "raise"], [kind |-> "nondict"]}
    \cup {[kind |-> "dict", error |-> e, result |-> r] :
            e \in ErrorFields, r \in {"dict", "null"}}

-----------------------------------------------------------------------------
(* Control flow of main() and execute_dca() *)

\* main() that goes on to the connection test whatever validate_config says
MainIgnoresErrors(errs) == "main_test"

\* lines 209-215: main returns when validate_config reports anything
MainAfterValidate(errs) == IF errs # <<>> THEN "exited" ELSE "main_test"

\* a loop that swallows the exception and keeps polling
OnExceptionSwallowed == "sleep"

\* an exception no handler catches ends the process: the try of the
\* polling loop catches KeyboardInterrupt only
OnException == "crashed"

\* execute_dca placing the order right after the balance check
AfterBalanceOkNoQuote == "dca_order"

\* lines 143-144: after a sufficient balance the price is fetched
AfterBalanceOk == "dca_ticker"

\* execute_dca asking for the balance again after a failure
AfterBalanceFailRetry == "dca_balance"

\* lines 132-134 and 139-141: execute_dca returns
AfterBalanceFail == "dca_return"

\* an order of the whole THB balance
PlaceOrderAmtBalance == Get(wallet.THB, Num(0))

\* line 151: the amount handed to place_market_buy_order
PlaceOrderAmt == DCA_AMOUNT

LoopPcs == {"poll", "sleep", "dca_balance", "dca_ticker", "dca_order", "dca_return"}

KeyInputs == {"", "your_api_key_here", "a1b2c3d4e5f6"}
SecretInputs == {"", "your_api_secret_here", "s3cr3t"}
\* float() of DCA_AMOUNT_THB: "9", "10" and "nan"
AmountInputs == {Num(9), Num(10), NaN}
SymbolInputs == {"btc_thb", "eth_thb"}
TimeInputs ==
    { <<"2", "3", ":", "5", "9">>,
      <<"2", "4", ":", "0", "0">>,
      <<"2", "3", ":", "6", "0">>,
      <<"2", "3", "5", "9">>,
      <<>>,
      <<"2", "x", ":", "5", "9">>,
      <<"-", "1", ":", "5", "9">>,
      <<"9", ":", "0", "5">>,
      <<" ", "9", ":", "0", "5">> }

Init ==
    /\ API_KEY \in KeyInputs
    /\ API_SECRET \in SecretInputs
    /\ DCA_AMOUNT \in AmountInputs
    /\ DCA_TIME \in TimeInputs
    /\ SYMBOL \in SymbolInputs
    /\ pc = "main_validate"
    /\ now = StartSecs
    /\ errors = <<>>
    /\ startErr = NoField
    /\ registered = FALSE
    /\ regTime = 0
    /\ next_run = 0
    /\ ran = <<>>
    /\ calls = <<>>
    /\ req = NoReq
    /\ wallet = NoResp
    /\ result = NoResp
    /\ logged = <<>>
    /\ exc = "none"

\* main, lines 208-215
MainValidate ==
    /\ pc = "main_validate"
    /\ errors' = validate_config
    /\ pc' = MainAfterValidate(validate_config)
    /\ UNCHANGED <<cfgVars, now, startErr, registered, regTime, next_run, ran,
                   calls, req, wallet, result, logged, exc>>

\* main, lines 224-238: the connection test
MainTestConnection ==
    /\ pc = "main_test"
    /\ \E resp \in WalletResponses, d \in Durations :
        /\ req' = WalletRequest(now)
        /\ now' = now + d
        /\ IF resp.kind = "raise"
           THEN /\ pc' = OnException /\ exc' = "get_wallet_balance"
                /\ UNCHANGED startErr
           ELSE IF resp.kind = "nondict"
           THEN /\ pc' = OnException /\ exc' = "main"
                /\ UNCHANGED startErr
           ELSE /\ startErr' = resp.error
                /\ pc' = IF ~PyIsZero(Get(resp.error, Num(1)))
                         THEN "exited" ELSE "main_schedule"
                /\ UNCHANGED exc
    /\ UNCHANGED <<cfgVars, errors, registered, regTime, next_run, ran, calls,
                   wallet, result, logged>>

\* main, line 241: schedule.every().day.at(DCA_TIME).do(execute_dca)
MainSchedule ==
    /\ pc = "main_schedule"
    /\ IF AtFormatOk(DCA_TIME)
       THEN /\ registered' = TRUE
            /\ regTime' = now
            /\ next_run' = NextRunAfter(now)
            /\ pc' = "poll"
            /\ UNCHANGED exc
       ELSE /\ pc' = OnException /\ exc' = "schedule_at"
            /\ UNCHANGED <<registered, regTime, next_run>>
    /\ req' = NoReq
    /\ UNCHANGED <<cfgVars, now, errors, startErr, ran, calls, wallet, result, logged>>

\* main, lines 253-254: run_pending finds nothing due, then time.sleep(60)
RunPendingIdle ==
    /\ pc = "poll"
    /\ ~ShouldRun
    /\ now < MaxNow
    /\ now' = now + SleepSecs
    /\ UNCHANGED <<cfgVars, pc, errors, startErr, registered, regTime, next_run,
                   ran, calls, req, wallet, result, logged, exc>>

\* main, line 253: run_pending runs the job; execute_dca, lines 124-129
RunPendingDue ==
    /\ pc = "poll"
    /\ ShouldRun
    /\ ran' = Append(ran, [due |-> next_run, at |-> now])
    /\ logged' = <<"start">>
    /\ pc' = "dca_balance"
    /\ UNCHANGED <<cfgVars, now, errors, startErr, registered, regTime, next_run,
                   calls, req, wallet, result, exc>>

\* execute_dca, lines 130-141
DcaBalance ==
    /\ pc = "dca_balance"
    /\ \E resp \in WalletResponses, d \in Durations :
        /\ req' = WalletRequest(now)
        /\ calls' = Append(calls, "balance")
        /\ now' = now + d
        /\ IF resp.kind = "raise"
           THEN /\ pc' = OnException /\ exc' = "get_wallet_balance"
                /\ UNCHANGED <<wallet, logged>>
           ELSE IF resp.kind = "nondict"
           THEN /\ pc' = OnException /\ exc' = "execute_dca"
                /\ wallet' = resp
                /\ UNCHANGED logged
           ELSE /\ wallet' = resp
                /\ UNCHANGED exc
                /\ IF ~PyIsZero(Get(resp.error, Num(1)))
                   THEN /\ logged' = Append(logged, "balance_failed")
                        /\ pc' = AfterBalanceFail
                   ELSE LET thb_balance == Get(resp.THB, Num(0))
                        IN  IF PyLt(thb_balance, DCA_AMOUNT)
                            THEN /\ logged' = logged \o <<"balance", "insufficient">>
                                 /\ pc' = AfterBalanceFail
                            ELSE /\ logged' = Append(logged, "balance")
                                 /\ pc' = AfterBalanceOk
    /\ UNCHANGED <<cfgVars, errors, startErr, registered, regTime, next_run, ran, result>>

\* execute_dca, lines 144-147
DcaTicker ==
    /\ pc = "dca_ticker"
    /\ \E data \in TickerData, d \in Durations :
        /\ req' = TickerRequest(now)
        /\ calls' = Append(calls, "ticker")
        /\ now' = now + d
        /\ IF data.kind = "raise"
           THEN /\ pc' = OnException /\ exc' = "get_ticker"
                /\ UNCHANGED logged
           ELSE LET ticker == get_ticker(data)
                IN  IF ticker.has /\ ticker.last = "bad"
                    THEN /\ pc' = OnException /\ exc' = "execute_dca"
                         /\ UNCHANGED logged
                    ELSE /\ pc' = "dca_order"
                         /\ logged' = IF ticker.has THEN Append(logged, "price") ELSE logged
                         /\ UNCHANGED exc
    /\ UNCHANGED <<cfgVars, errors, startErr, registered, regTime, next_run, ran,
                   wallet, result>>

\* execute_dca, lines 150-175
DcaOrder ==
    /\ pc = "dca_order"
    /\ \E resp \in OrderResponses, d \in Durations :
        /\ req' = OrderRequest(now, PlaceOrderAmt)
        /\ calls' = Append(calls, "order")
        /\ now' = now + d
        /\ IF resp.kind = "raise"
           THEN /\ pc' = OnException /\ exc' = "place_market_buy_order"
                /\ logged' = Append(logged, "placing")
                /\ UNCHANGED result
           ELSE IF resp.kind = "nondict"
           THEN /\ pc' = OnException /\ exc' = "execute_dca"
                /\ logged' = Append(logged, "placing")
                /\ result' = resp
           ELSE /\ result' = resp
                /\ IF PyIsZero(Get(resp.error, Num(1)))
                   THEN /\ logged' = logged \o <<"placing", "success">>
                        /\ IF resp.result = "null"
                           THEN pc' = OnException /\ exc' = "execute_dca"
                           ELSE pc' = "dca_return" /\ UNCHANGED exc
                   ELSE IF resp.error = Unhashable
                   THEN /\ logged' = Append(logged, "placing")
                        /\ pc' = OnException /\ exc' = "execute_dca"
                   ELSE /\ logged' = logged \o <<"placing", "failed">>
                        /\ pc' = "dca_return" /\ UNCHANGED exc
    /\ UNCHANGED <<cfgVars, errors, startErr, registered, regTime, next_run, ran, wallet>>

\* execute_dca returns into Job.run, which schedules the next run
DcaReturn ==
    /\ pc = "dca_return"
    /\ next_run' = NextRunAfter(now)
    /\ calls' = <<>>
    /\ req' = NoReq
    /\ wallet' = NoResp
    /\ result' = NoResp
    /\ logged' = <<>>
    /\ pc' = "sleep"
    /\ UNCHANGED <<cfgVars, now, errors, startErr, registered, regTime, ran, exc>>

\* main, line 254, after a job has run
Sleep ==
    /\ pc = "sleep"
    /\ now < MaxNow
    /\ now' = now + SleepSecs
    /\ pc' = "poll"
    /\ UNCHANGED <<cfgVars, errors, startErr, registered, regTime, next_run, ran,
                   calls, req, wallet, result, logged, exc>>

\* main, lines 255-257: Ctrl+C inside the try block
Interrupt ==
    /\ pc \in LoopPcs
    /\ pc' = "stopped"
    /\ UNCHANGED <<cfgVars, now, errors, startErr, registered, regTime, next_run,
                   ran, calls, req, wallet, result, logged, exc>>

Next ==
    \/ MainValidate
    \/ MainTestConnection
    \/ MainSchedule
    \/ RunPendingIdle
    \/ RunPendingDue
    \/ DcaBalance
    \/ DcaTicker
    \/ DcaOrder
    \/ DcaReturn
    \/ Sleep
    \/ Interrupt

Spec == Init /\ [][Next]_vars

-----------------------------------------------------------------------------
(* Properties *)

Has(seq, x) == \E i \in 1..Len(seq) : seq[i] = x

\* the "error" field is present and equal to 0
ErrorIsZero(resp) == resp.error.t = "num" /\ resp.error.v = 0

\* C1: once the job is registered and the loop polls, execute_dca is
\* invoked for each day's DCA_TIME: no two runs are for the same day, each
\* run is for a DCA_TIME instant and starts within one polling interval
\* after it, and while the loop runs every DCA_TIME instant that passed
\* after the registration at least one polling interval ago has its run.
C1_OncePerDay ==
    /\ \A i, j \in 1..Len(ran) :
           i # j => (ran[i].due \div DaySecs) # (ran[j].due \div DaySecs)
    /\ \A i \in 1..Len(ran) :
           /\ ran[i].due % DaySecs = AtSecs(DCA_TIME)
           /\ ran[i].due <= ran[i].at
           /\ ran[i].at - ran[i].due <= SleepSecs
    /\ (registered /\ pc \in LoopPcs) =>
           \A d \in 0..(now \div DaySecs) :
               (regTime < At(d) /\ At(d) + SleepSecs <= now)
                   => \E i \in 1..Len(ran) : ran[i].due = At(d)

\* C1 witness: runs on two consecutive days, the first found late by the poll
C1_Witness ==
    /\ Len(ran) = 2
    /\ ran[2].due = ran[1].due + DaySecs
    /\ ran[1].at > ran[1].due

\* C2: the client calls of one execute_dca are made in the order balance,
\* price, place-order; a place-order request is sent only after both others.
C2_CallOrder ==
    /\ \E n \in 0..3 : calls = SubSeq(<<"balance", "ticker", "order">>, 1, n)
    /\ req.kind = "order" => calls = <<"balance", "ticker", "order">>
    /\ req.kind = "ticker" => calls = <<"balance", "ticker">>

\* C2 witness: an invocation that made all three calls
C2_Witness == calls = <<"balance", "ticker", "order">> /\ pc = "dca_return"

\* C3: a place-order request is sent only if the balance response of the
\* same invocation has "error" present and 0 and a THB balance >= DCA_AMOUNT;
\* with the error missing or non-zero, or the balance missing or below
\* DCA_AMOUNT, the invocation returns after the balance query alone.
C3_BalanceGate ==
    LET thb == Get(wallet.THB, Num(0))
        enough == thb.t = "num" /\ DCA_AMOUNT.t = "num" /\ thb.v >= DCA_AMOUNT.v
    IN  /\ Has(calls, "order") =>
               wallet.kind = "dict" /\ ErrorIsZero(wallet) /\ enough
        /\ (wallet.kind = "dict" /\ (~ErrorIsZero(wallet) \/ ~enough)) =>
               calls = <<"balance">> /\ pc \in {"dca_return", "stopped"}

\* C4: after the place-order response exactly one outcome is logged:
\* success iff "error" is present and 0, failure otherwise.
C4_OneOutcome ==
    result.kind = "dict" =>
        /\ Has(logged, "success") <=> ErrorIsZero(result)
        /\ Has(logged, "failed") <=> ~ErrorIsZero(result)

\* the balance query of the current invocation failed
BalanceFailed == wallet.kind = "dict" /\ ~ErrorIsZero(wallet)
\* the order of the current invocation failed
OrderFailed == result.kind = "dict" /\ ~ErrorIsZero(result)

\* C5: no retry: an invocation makes each client call at most once, and
\* after a failed balance query, a failed order or a raised call no request
\* is sent before the next scheduled invocation.
C5_NoRetry ==
    [][ /\ \A i, j \in 1..Len(calls') : i # j => calls'[i] # calls'[j]
        /\ (BalanceFailed \/ OrderFailed \/ exc # "none") =>
               /\ calls' = calls \/ calls' = <<>>
               /\ req' = req \/ req' = NoReq
        /\ Len(ran') > Len(ran) => (calls = <<>> /\ ran'[Len(ran')].due >= next_run) ]_vars

\* C5 witness: an invocation that ended after a failed balance query
C5_Witness == pc = "dca_return" /\ BalanceFailed /\ calls = <<"balance">>

\* C6: every place-order request is a market buy of DCA_AMOUNT of SYMBOL,
\* whatever the balance, the quote and the earlier invocations were.
C6_FixedOrder ==
    req.kind = "order" =>
        req.body = [text |-> "dict", sym |-> SYMBOL, amt |-> DCA_AMOUNT,
                    rat |-> 0, typ |-> "market"]

\* C6 witness: the order of a second invocation, with a balance above the amount
C6_Witness ==
    /\ req.kind = "order"
    /\ Len(ran) = 2
    /\ wallet.THB = Num(25)
    /\ ~Has(logged, "price")

\* C7: with configuration errors main returns having sent nothing and
\* registered nothing; with a start-up balance response whose "error" is
\* missing or non-zero main returns without registering; the job is
\* registered, and execute_dca runs, only after both gates passed.
C7_StartupGates ==
    /\ pc # "main_validate" => errors = validate_config
    /\ (pc # "main_validate" /\ errors # <<>>) =>
           /\ pc = "exited" /\ req = NoReq /\ startErr = NoField
           /\ ~registered /\ ran = <<>> /\ calls = <<>>
    /\ (startErr # NoField /\ ~PyIsZero(Get(startErr, Num(1)))) =>
           pc = "exited" /\ ~registered /\ ran = <<>> /\ calls = <<>>
    /\ (registered \/ ran # <<>> \/ calls # <<>>) =>
           errors = <<>> /\ startErr = Num(0)

\* C7 witness: the configuration is valid and the connection test fails
C7_Witness == pc = "exited" /\ errors = <<>> /\ startErr = Missing

\* DCA_TIME is of the form HH:MM with hour 00-23 and minute 00-59
IsHHMM(s) ==
    /\ Len(s) = 5
    /\ IsDigit(s[1]) /\ IsDigit(s[2]) /\ s[3] = ":" /\ IsDigit(s[4]) /\ IsDigit(s[5])
    /\ DigitsValue(SubSeq(s, 1, 2)) <= 23
    /\ DigitsValue(SubSeq(s, 4, 5)) <= 59

\* C8: validate_config reports the DCA_TIME error exactly for the values
\* that are not HH:MM with hour 00-23 and minute 00-59, so that with no
\* errors the registration of the daily job succeeds.
C8_TimeFormat ==
    pc # "main_validate" =>
        /\ Has(errors, TimeError) <=> ~IsHHMM(DCA_TIME)
        /\ errors = <<>> => exc # "schedule_at"

\* C9: the signature of every authenticated request is over the timestamp
\* sent in its own timestamp header, the method and path of the request
\* sent and the body sent, and the timestamp is the clock read when the
\* request was built.
C9_Signature ==
    req.kind \in {"balance", "order"} =>
        /\ req.headers.sign.key = API_SECRET
        /\ req.headers.sign.message =
               <<req.headers.timestamp, req.method, req.url[2], req.body>>
        /\ req.url[1] = BASE_URL
        /\ req.headers.timestamp = Timestamp(req.at)

\* C9 witness: a signed place-order request
C9_Witness == req.kind = "order" /\ pc = "dca_return"

\* C10: a client call that raises during a scheduled execute_dca ends the
\* run: the process is at "crashed", and from then on no job runs and no
\* request is sent.
C10_RaiseEndsRun ==
    [][ /\ (exc' # "none" /\ ran' # <<>>) => pc' = "crashed"
        /\ exc # "none" => (exc' = exc /\ ran' = ran /\ calls' = calls /\ req' = req) ]_vars

\* C10 witness: the price query of a scheduled invocation raised
C10_Witness == pc = "crashed" /\ exc = "get_ticker" /\ Len(ran) = 1

====
